---- MODULE Spec2Model ----
(***************************************************************************)
(* Model of the sale transaction flow of the POS application               *)
(* (pos/views.py, sale_create) over the tables of pos/models.py.          *)
(*                                                                         *)
(* Money is counted in thousandths of a currency unit (mills): a Decimal   *)
(* posted by the client may carry more than two decimal places, while the  *)
(* DecimalField columns keep two (Quantize).                               *)
(*                                                                         *)
(* The database is a read-committed store: a request inside                *)
(* transaction.atomic() reads the committed rows overlaid with its own     *)
(* uncommitted writes, a row written by one open transaction cannot be     *)
(* written by another one until the first ends, and the writes reach the   *)
(* committed tables when the atomic block exits without an exception.      *)
(***************************************************************************)
EXTENDS Integers, Sequences, FiniteSets, TLC

\* ------------------------------------------------------------------ bounds
MaxQty == 2
MaxCart == 2
PairCart == 1
MaxProducts == 2
MaxRestocks == 1

\* ------------------------------------------------------------ optional values
None == <<>>
Some(x) == <<x>>
Val(o) == o[1]

\* ------------------------------------------------------------------ fixtures
Procs == {"p1", "p2"}
Products == {"A", "B"}
Branches == {"B1", "B2"}

\* Product rows: default price and floor price, in mills.
ProductTable ==
  [pr \in Products |->
     IF pr = "A" THEN [price |-> 30, min_price |-> 20]
                 ELSE [price |-> 20, min_price |-> 10]]

\* ProductStock rows without their quantity: three lots of product A at
\* branch B1 (one of them without expiry date), one lot of product B at B1
\* and one lot of product A at branch B2.
LotIds == {1, 2, 3, 4, 5}
LotTable ==
  [l \in LotIds |->
     CASE l = 1 -> [product |-> "A", branch |-> "B1", expiry_date |-> Some(1), unit_cost |-> 30]
       [] l = 2 -> [product |-> "A", branch |-> "B1", expiry_date |-> Some(2), unit_cost |-> 10]
       [] l = 3 -> [product |-> "A", branch |-> "B1", expiry_date |-> None,    unit_cost |-> 10]
       [] l = 4 -> [product |-> "B", branch |-> "B1", expiry_date |-> Some(1), unit_cost |-> 10]
       [] l = 5 -> [product |-> "A", branch |-> "B2", expiry_date |-> Some(1), unit_cost |-> 20]]
VariedLots == {1, 2, 3}

\* Customer rows present before any sale: phone "ph2" is shared by two rows
\* (phone is not unique).
InitCustomers ==
  { [id |-> 1, phone |-> "ph1", name |-> "n1", email |-> "e1"],
    [id |-> 2, phone |-> "ph2", name |-> "n2", email |-> ""],
    [id |-> 3, phone |-> "ph2", name |-> "n3", email |-> "e3"] }

\* ------------------------------------------------------------------- inputs
Prices == {10, 20, 24}
Qtys == {-1, 1, 2}
Phones == {"", "ph1", "ph2", "ph3"}
Names == {"nm"}
FormBranches == Branches \cup {"invalid"}

ItemsOf(ld) ==
  IF ld = "single"
    THEN [product : Products, unit_price : Prices, qty : Qtys]
    ELSE [product : {"A"}, unit_price : {20, 24}, qty : {1, 2}]
CartLen(ld) == IF ld = "single" THEN MaxCart ELSE PairCart
CartsOf(ld) == UNION { [1..n -> ItemsOf(ld)] : n \in 0..CartLen(ld) }
BranchesOf(ld) == IF ld = "single" THEN FormBranches ELSE {"B1"}
PhonesOf(ld) == IF ld = "single" THEN Phones ELSE {""}

VARIABLES
  load,        \* "single": one request; "pair": two concurrent requests;
               \* "restock": one request next to the restock action
  lots,        \* committed ProductStock.quantity, by lot id
  lots0,       \* the quantities before any request
  sales,       \* committed Sale rows
  saleitems,   \* committed SaleItem rows
  customers,   \* committed Customer rows
  saleSeq,     \* last Sale id handed out
  mails,       \* receipts handed to the notifier
  pc,          \* position of each request in sale_create
  items,       \* the parsed cart of each request
  branch,      \* form.cleaned_data["branch"]
  customer,    \* the resolved customer id, or None
  idx,         \* index of the cart line being allocated
  chosen,      \* chosen_stock: the lot read by the query and its quantity
  sale,        \* id of the Sale object created by the request, or None
  stagedSale,  \* the Sale row written in the open transaction, or None
  stagedItems, \* SaleItem rows written in the open transaction
  writes,      \* lot quantities written in the open transaction
  outcome,     \* what the caller is told
  contact,     \* customer_phone and customer_name of the form of each request
  catalog,     \* Product rows added through product_add or the admin
  stocks,      \* ProductStock rows added through product_add
  restocks     \* how many times restock_products has updated each lot

vars == << load, lots, lots0, sales, saleitems, customers, saleSeq, mails, pc,
           items, branch, customer, idx, chosen, sale, stagedSale, stagedItems,
           writes, outcome, contact, catalog, stocks, restocks >>


\* ------------------------------------------------------------ pure helpers
Min(S) == CHOOSE x \in S : \A y \in S : x <= y

\* A DecimalField(decimal_places=2) column keeps whole hundredths: the value
\* written is rounded to the nearest multiple of ten mills (ties to even).
Quantize(x) ==
  LET r == x % 10
      low == x - r
  IN  IF r < 5 THEN low
      ELSE IF r > 5 THEN low + 10
      ELSE IF (low \div 10) % 2 = 0 THEN low ELSE low + 10

\* Mutant of BelowFloor: the floor check is missing.
BelowFloor_Missing(it) == it.unit_price < 0

\* views.py:189  unit_price < product.min_price
BelowFloor(it) == it.unit_price < ProductTable[it.product].min_price

\* Mutant of BadLines: only the first item of the cart is checked.
BadLines_FirstOnly(cart) ==
  { i \in 1..Len(cart) : i = 1 /\ BelowFloor(cart[i]) }

\* views.py:179-193  the lines stopped by the floor check of the parse loop,
\* which runs on every item before anything else is done.
BadLines(cart) == { i \in 1..Len(cart) : BelowFloor(cart[i]) }

\* views.py:224  line_total = unit_price * qty
LineTotal(it) == it.unit_price * it.qty

\* views.py:207  total = sum(unit_price * qty for it in items)
RECURSIVE CartTotal(_)
CartTotal(cart) ==
  IF cart = <<>> THEN 0
  ELSE LineTotal(Head(cart)) + CartTotal(Tail(cart))

\* Mutant of View: a request does not read its own uncommitted writes.
View_CommittedOnly(p, l) == lots[l]

\* The quantity of lot l as request p reads it: its own uncommitted write if
\* it has one, the committed value otherwise.
View(p, l) == IF l \in DOMAIN writes[p] THEN writes[p][l] ELSE lots[l]

\* Mutant of Candidates: the query lacks the quantity__gte filter.
Candidates_NoQtyFilter(p, product, br, qty) ==
  { l \in LotIds : /\ LotTable[l].product = product
                   /\ LotTable[l].branch = br }

\* Mutant of Candidates: a lot qualifies when the lots of the product at the
\* branch hold the requested quantity together.
Candidates_Combined(p, product, br, qty) ==
  LET same == { l \in LotIds : /\ LotTable[l].product = product
                               /\ LotTable[l].branch = br }
      total[S \in SUBSET same] ==
        IF S = {} THEN 0
        ELSE LET x == CHOOSE y \in S : TRUE IN View(p, x) + total[S \ {x}]
  IN  { l \in same : View(p, l) >= 1 /\ total[same] >= qty }

\* views.py:211  filter(product=..., branch=..., quantity__gte=qty)
Candidates(p, product, br, qty) ==
  { l \in LotIds : /\ LotTable[l].product = product
                   /\ LotTable[l].branch = br
                   /\ View(p, l) >= qty }

\* Ascending order on expiry_date with the rows without a date first
\* (SQLite, MySQL) or last (PostgreSQL).
ExpiryLeq(a, b, nullsFirst) ==
  IF a = None THEN (nullsFirst \/ b = None)
  ELSE IF b = None THEN ~nullsFirst
  ELSE Val(a) <= Val(b)

\* views.py:211-212  order_by("expiry_date").first(): the rows that can come
\* first; rows with equal expiry_date come in an unspecified order.
OrderFirst(C) ==
  { l \in C : \E nf \in BOOLEAN :
       \A m \in C : ExpiryLeq(LotTable[l].expiry_date, LotTable[m].expiry_date, nf) }

\* Mutant of BelowCost: the price is compared with the floor of the product
\* instead of the cost of the lot.
BelowCost_AgainstFloor(it, l) == it.unit_price < ProductTable[it.product].min_price

\* views.py:218  unit_price < chosen_stock.unit_cost
BelowCost(it, l) == it.unit_price < LotTable[l].unit_cost

\* views.py:206  Customer.objects.get_or_create(phone=phone, ...)
Matches(ph) == { c \in customers : c.phone = ph }
NewCustomer(ph, nm) ==
  [id |-> Cardinality(customers) + 1, phone |-> ph, name |-> nm, email |-> ""]

EmailOf(cid) == (CHOOSE c \in customers : c.id = cid).email

NoWrites == [l \in {} |-> 0]
Result(kind, line, dirty) == [kind |-> kind, line |-> line, dirty |-> dirty]
Pending == Result("none", 0, FALSE)

\* --------------------------------------------------------------------- Init
InitLoad(loads) ==
  /\ load \in loads
  /\ lots \in { q \in [LotIds -> 1..MaxQty] :
                 \A l \in LotIds \ VariedLots : q[l] = MaxQty }
  /\ lots0 = lots
  /\ sales = {}
  /\ saleitems = {}
  /\ customers = InitCustomers
  /\ saleSeq = 0
  /\ mails = {}
  /\ pc = [p \in Procs |-> "idle"]
  /\ items = [p \in Procs |-> <<>>]
  /\ branch = [p \in Procs |-> "invalid"]
  /\ customer = [p \in Procs |-> None]
  /\ idx = [p \in Procs |-> 0]
  /\ chosen = [p \in Procs |-> None]
  /\ sale = [p \in Procs |-> None]
  /\ stagedSale = [p \in Procs |-> None]
  /\ stagedItems = [p \in Procs |-> {}]
  /\ writes = [p \in Procs |-> NoWrites]
  /\ outcome = [p \in Procs |-> Pending]
  /\ contact = [p \in Procs |-> [phone |-> "", name |-> ""]]
  /\ catalog = <<>>
  /\ stocks = <<>>
  /\ restocks = [l \in LotIds |-> 0]

Init == InitLoad({"single", "pair"})

\* ------------------------------------------------------------------ actions
\* The requests that can arrive: two under load "pair", one otherwise.
Arriving == { q \in Procs : pc[q] = "idle" /\ (load # "pair" => q = "p1") }

\* The request returns to its caller with a message (or an error page).
Return(p, kind, line) ==
  /\ pc' = [pc EXCEPT ![p] = "done"]
  /\ outcome' = [outcome EXCEPT ![p] = Result(kind, line, FALSE)]

\* views.py:175-206: the POST is parsed item by item with the floor check of
\* each item, then the empty-cart check, the form and the customer lookup.
Post(p, cart, br, ph, nm) ==
  /\ p \in Arriving
  /\ items' = [items EXCEPT ![p] = cart]
  /\ contact' = [contact EXCEPT ![p] = [phone |-> ph, name |-> nm]]
  /\ UNCHANGED << load, restocks, catalog, stocks, lots, lots0, sales, saleitems, saleSeq, mails, idx,
                  chosen, sale, stagedSale, stagedItems, writes >>
  /\ LET bad == BadLines(cart)
     IN  IF bad # {}
           THEN /\ Return(p, "PriceBelowFloor", Min(bad))
                /\ UNCHANGED << customers, branch, customer >>
         ELSE IF cart = <<>>
           THEN /\ Return(p, "EmptyCart", 0)
                /\ UNCHANGED << customers, branch, customer >>
         ELSE IF br = "invalid"
           THEN /\ Return(p, "FormInvalid", 0)
                /\ UNCHANGED << customers, branch, customer >>
         ELSE IF ph = ""
           THEN /\ branch' = [branch EXCEPT ![p] = br]
                /\ pc' = [pc EXCEPT ![p] = "create_sale"]
                /\ UNCHANGED << customers, customer, outcome >>
         ELSE IF Cardinality(Matches(ph)) > 1
           THEN /\ Return(p, "MultipleObjectsReturned", 0)
                /\ UNCHANGED << customers, branch, customer >>
         ELSE IF Matches(ph) = {}
           THEN /\ customers' = customers \cup {NewCustomer(ph, nm)}
                /\ customer' = [customer EXCEPT ![p] = Some(NewCustomer(ph, nm).id)]
                /\ branch' = [branch EXCEPT ![p] = br]
                /\ pc' = [pc EXCEPT ![p] = "create_sale"]
                /\ UNCHANGED outcome
         ELSE /\ customer' = [customer EXCEPT ![p] =
                                 Some((CHOOSE c \in Matches(ph) : TRUE).id)]
              /\ branch' = [branch EXCEPT ![p] = br]
              /\ pc' = [pc EXCEPT ![p] = "create_sale"]
              /\ UNCHANGED << customers, outcome >>

\* views.py:207-209: the total is computed, the atomic block is entered and
\* the Sale row is inserted.
CreateSale(p) ==
  /\ UNCHANGED contact
  /\ pc[p] = "create_sale"
  /\ saleSeq' = saleSeq + 1
  /\ sale' = [sale EXCEPT ![p] = Some(saleSeq + 1)]
  /\ stagedSale' = [stagedSale EXCEPT ![p] =
        Some([id |-> saleSeq + 1, branch |-> branch[p], customer |-> customer[p],
              total |-> Quantize(CartTotal(items[p])),
              cash_received |-> Quantize(CartTotal(items[p]))])]
  /\ idx' = [idx EXCEPT ![p] = 1]
  /\ pc' = [pc EXCEPT ![p] = "select"]
  /\ UNCHANGED << load, restocks, catalog, stocks, lots, lots0, sales, saleitems, customers, mails, items,
                  branch, customer, chosen, stagedItems, writes, outcome >>

\* Mutant of DeleteSale: the rejection returns without sale.delete().
DeleteSale_Missing(p, kind) ==
  /\ outcome' = [outcome EXCEPT ![p] = Result(kind, idx[p], FALSE)]
  /\ pc' = [pc EXCEPT ![p] = "commit"]
  /\ UNCHANGED << chosen, stagedSale, stagedItems >>

\* views.py:215, 220: sale.delete() removes the Sale row and, by cascade, its
\* SaleItem rows; the return that follows leaves the atomic block normally.
DeleteSale(p, kind) ==
  /\ stagedSale' = [stagedSale EXCEPT ![p] = None]
  /\ stagedItems' = [stagedItems EXCEPT ![p] = {}]
  /\ outcome' = [outcome EXCEPT ![p] = Result(kind, idx[p], FALSE)]
  /\ pc' = [pc EXCEPT ![p] = "commit"]
  /\ UNCHANGED chosen

\* views.py:211-221: the lot query of the current line, the stock check and
\* the cost check.
SelectStock(p) ==
  /\ UNCHANGED contact
  /\ pc[p] = "select"
  /\ UNCHANGED << load, restocks, catalog, stocks, lots, lots0, sales, saleitems, customers, saleSeq, mails,
                  items, branch, customer, idx, sale, writes >>
  /\ LET it == items[p][idx[p]]
         C == Candidates(p, it.product, branch[p], it.qty)
     IN  IF C = {}
           THEN DeleteSale(p, "InsufficientStock")
           ELSE \E l \in OrderFirst(C) :
                  IF BelowCost(it, l)
                    THEN DeleteSale(p, "SaleBelowCost")
                    ELSE /\ chosen' = [chosen EXCEPT ![p] =
                                         Some([id |-> l, quantity |-> View(p, l)])]
                         /\ pc' = [pc EXCEPT ![p] = "save"]
                         /\ UNCHANGED << stagedSale, stagedItems, outcome >>

\* views.py:222-223: chosen_stock.quantity -= qty; chosen_stock.save().  The
\* row is written with the quantity computed from the value read by the query.
SaveStock(p) ==
  /\ UNCHANGED contact
  /\ pc[p] = "save"
  /\ \A q \in Procs \ {p} : Val(chosen[p]).id \notin DOMAIN writes[q]
  /\ LET l == Val(chosen[p]).id
         v == Val(chosen[p]).quantity - items[p][idx[p]].qty
     IN  writes' = [writes EXCEPT ![p] =
                      [k \in DOMAIN writes[p] \cup {l} |->
                         IF k = l THEN v ELSE writes[p][k]]]
  /\ pc' = [pc EXCEPT ![p] = "create_item"]
  /\ UNCHANGED << load, restocks, catalog, stocks, lots, lots0, sales, saleitems, customers, saleSeq, mails,
                  items, branch, customer, idx, chosen, sale, stagedSale,
                  stagedItems, outcome >>

\* views.py:224-225: the SaleItem row of the line is inserted and the loop
\* goes on to the next line.
CreateItem(p) ==
  /\ UNCHANGED contact
  /\ pc[p] = "create_item"
  /\ LET it == items[p][idx[p]]
     IN  stagedItems' = [stagedItems EXCEPT ![p] = @ \cup
           { [id |-> << Val(sale[p]), idx[p] >>, sale |-> Val(sale[p]),
              product |-> it.product, product_stock |-> Val(chosen[p]).id,
              unit_price |-> Quantize(it.unit_price), qty |-> it.qty,
              line_total |-> Quantize(LineTotal(it))] }]
  /\ idx' = [idx EXCEPT ![p] = @ + 1]
  /\ pc' = [pc EXCEPT ![p] = IF idx[p] = Len(items[p]) THEN "mail" ELSE "select"]
  /\ UNCHANGED << load, restocks, catalog, stocks, lots, lots0, sales, saleitems, customers, saleSeq, mails,
                  items, branch, customer, chosen, sale, stagedSale, writes,
                  outcome >>

\* views.py:226-234: the receipt is mailed, inside the atomic block, when the
\* customer has an email address; the notifier delivers it or fails, and
\* fail_silently=True hides a failed send.
SendReceipt(p) ==
  /\ UNCHANGED contact
  /\ pc[p] = "mail"
  /\ IF customer[p] # None /\ EmailOf(Val(customer[p])) # ""
       THEN \E ok \in BOOLEAN :
              mails' = mails \cup { [sale |-> Val(sale[p]),
                                     to |-> EmailOf(Val(customer[p])),
                                     delivered |-> ok] }
       ELSE UNCHANGED mails
  /\ pc' = [pc EXCEPT ![p] = "commit"]
  /\ UNCHANGED << load, restocks, catalog, stocks, lots, lots0, sales, saleitems, customers, saleSeq, items,
                  branch, customer, idx, chosen, sale, stagedSale, stagedItems,
                  writes, outcome >>

\* The atomic block is left without an exception: the writes of the
\* transaction reach the tables (views.py:208, 216, 221, 235-236).
Commit(p) ==
  /\ UNCHANGED contact
  /\ pc[p] = "commit"
  /\ lots' = [l \in LotIds |-> View(p, l)]
  /\ sales' = sales \cup (IF stagedSale[p] = None THEN {} ELSE {Val(stagedSale[p])})
  /\ saleitems' = saleitems \cup stagedItems[p]
  /\ stagedSale' = [stagedSale EXCEPT ![p] = None]
  /\ stagedItems' = [stagedItems EXCEPT ![p] = {}]
  /\ writes' = [writes EXCEPT ![p] = NoWrites]
  /\ outcome' = [outcome EXCEPT ![p] =
                   IF @.kind = "none" THEN Result("Recorded", 0, FALSE) ELSE @]
  /\ pc' = [pc EXCEPT ![p] = "done"]
  /\ UNCHANGED << load, restocks, catalog, stocks, lots0, customers, saleSeq, mails, items, branch,
                  customer, idx, chosen, sale >>

\* Mutant of Rollback: the writes are not inside an atomic block, so that
\* those made before the exception stay.
Rollback_NotAtomic(p) ==
  /\ lots' = [l \in LotIds |-> View(p, l)]
  /\ sales' = sales \cup (IF stagedSale[p] = None THEN {} ELSE {Val(stagedSale[p])})
  /\ saleitems' = saleitems \cup stagedItems[p]
  /\ stagedSale' = [stagedSale EXCEPT ![p] = None]
  /\ stagedItems' = [stagedItems EXCEPT ![p] = {}]
  /\ writes' = [writes EXCEPT ![p] = NoWrites]

\* An exception leaves the atomic block: every write of the transaction is
\* discarded (views.py:208).
Rollback(p) ==
  /\ stagedSale' = [stagedSale EXCEPT ![p] = None]
  /\ stagedItems' = [stagedItems EXCEPT ![p] = {}]
  /\ writes' = [writes EXCEPT ![p] = NoWrites]
  /\ UNCHANGED << lots, sales, saleitems >>

\* A write of the transaction (the insert of the Sale, the save of a lot, the
\* insert of a SaleItem, the commit) raises an exception.
Fail(p) ==
  /\ UNCHANGED contact
  /\ pc[p] \in {"create_sale", "save", "create_item", "commit"}
  /\ Rollback(p)
  /\ outcome' = [outcome EXCEPT ![p] =
                   Result("Aborted", idx[p], DOMAIN writes[p] # {})]
  /\ pc' = [pc EXCEPT ![p] = "done"]
  /\ UNCHANGED << load, restocks, catalog, stocks, lots0, customers, saleSeq, mails, items, branch,
                  customer, idx, chosen, sale >>

Next ==
  \/ \E p \in Arriving :
       \E req \in CartsOf(load) \X BranchesOf(load) \X PhonesOf(load) \X Names :
         Post(p, req[1], req[2], req[3], req[4])
  \/ \E p \in Procs : CreateSale(p)
  \/ \E p \in Procs : SelectStock(p)
  \/ \E p \in Procs : SaveStock(p)
  \/ \E p \in Procs : CreateItem(p)
  \/ \E p \in Procs : SendReceipt(p)
  \/ \E p \in Procs : Commit(p)
  \/ \E p \in Procs : Fail(p)

Spec == Init /\ [][Next]_vars

\* ------------------------------------------------------------------ restock
\* admin.py:90  the units added to each selected row.
RestockAmount == 10

\* admin.py:88-91, action of ProductStockAdmin (admin.py:180):
\* queryset.update(quantity=F('quantity') + 10) is one UPDATE statement that
\* adds to the committed quantity of every selected row inside the database;
\* it waits for a row that an open transaction has written.
restock_products(queryset) ==
  /\ \A l \in queryset : restocks[l] < MaxRestocks
  /\ \A l \in queryset : \A p \in Procs : l \notin DOMAIN writes[p]
  /\ lots' = [l \in LotIds |->
               IF l \in queryset THEN lots[l] + RestockAmount ELSE lots[l]]
  /\ restocks' = [l \in LotIds |->
                   IF l \in queryset THEN restocks[l] + 1 ELSE restocks[l]]
  /\ UNCHANGED << load, lots0, sales, saleitems, customers, saleSeq, mails, pc,
                  items, branch, customer, idx, chosen, sale, stagedSale,
                  stagedItems, writes, outcome, contact, catalog, stocks >>

\* A sale request with the restock action of the admin next to it.
InitRestock == InitLoad({"restock"})

NextRestock ==
  \/ Next
  \/ \E queryset \in (SUBSET LotIds) \ {{}} : restock_products(queryset)

SpecRestock == InitRestock /\ [][NextRestock]_vars

\* ---------------------------------------------------------- product entry
\* What the product forms can be sent: prices with two or three decimal
\* places, floors that may be negative, and the fields of the stock form.
EntryPrices == {10, 20, 24}
EntryFloors == {-10, 10, 20}
StockProducts == Products \cup {""}
StockQtys == {0, 1}

\* models.py:32-34 as validated by a ModelForm: at most two decimal places
\* for price and min_price, and min_price >= 0 (MinValueValidator).
ProductFields_valid(price, min_price) ==
  /\ price % 10 = 0
  /\ min_price % 10 = 0
  /\ min_price >= 0

\* forms.py:4-7  ProductForm: the field validation of the model and nothing
\* else.
ProductForm_is_valid(price, min_price) == ProductFields_valid(price, min_price)

\* forms.py:9-12  ProductStockForm: the product field is required.
ProductStockForm_is_valid(sproduct, qty) == sproduct # ""

\* admin.py:66-83  ProductAdminForm: the field validation and clean(), which
\* refuses min_price > price.
ProductAdminForm_is_valid(price, min_price) ==
  /\ ProductFields_valid(price, min_price)
  /\ ~(min_price > price)

\* views.py:151-166  product_add: with both forms valid the Product and its
\* ProductStock are saved in one transaction; otherwise the forms are shown
\* again.
product_add(price, min_price, sproduct, qty) ==
  /\ Len(catalog) < MaxProducts
  /\ IF ProductForm_is_valid(price, min_price)
        /\ ProductStockForm_is_valid(sproduct, qty)
       THEN /\ catalog' = Append(catalog, [id |-> Len(catalog) + 1,
                                           price |-> price, min_price |-> min_price])
            /\ stocks' = Append(stocks, [product |-> Len(catalog) + 1,
                                         quantity |-> qty])
       ELSE UNCHANGED << catalog, stocks >>
  /\ UNCHANGED << load, restocks, lots, lots0, sales, saleitems, customers, saleSeq, mails,
                  pc, items, branch, customer, idx, chosen, sale, stagedSale,
                  stagedItems, writes, outcome, contact >>

\* admin.py:124-147  ProductAdmin with form = ProductAdminForm: a Product is
\* added (target 0) or an added Product is changed.
ProductAdmin_save(target, price, min_price) ==
  /\ target = 0 => Len(catalog) < MaxProducts
  /\ IF ProductAdminForm_is_valid(price, min_price)
       THEN catalog' =
              IF target = 0
                THEN Append(catalog, [id |-> Len(catalog) + 1,
                                      price |-> price, min_price |-> min_price])
                ELSE [catalog EXCEPT ![target] =
                        [id |-> target, price |-> price, min_price |-> min_price]]
       ELSE UNCHANGED catalog
  /\ UNCHANGED << load, restocks, lots, lots0, sales, saleitems, customers, saleSeq, mails,
                  pc, items, branch, customer, idx, chosen, sale, stagedSale,
                  stagedItems, writes, outcome, contact, stocks >>

\* The catalogue on its own: no sale request is in flight.
InitCatalog ==
  /\ Init
  /\ load = "single"
  /\ lots = [l \in LotIds |-> MaxQty]

NextCatalog ==
  \/ \E price \in EntryPrices : \E min_price \in EntryFloors :
       \E sproduct \in StockProducts : \E qty \in StockQtys :
         product_add(price, min_price, sproduct, qty)
  \/ \E target \in 0..Len(catalog) :
       \E price \in EntryPrices : \E min_price \in EntryFloors :
         ProductAdmin_save(target, price, min_price)

SpecCatalog == InitCatalog /\ [][NextCatalog]_vars

\* ------------------------------------------------------------------ claims
Done(p) == pc[p] = "done"
\* No other request has arrived yet: the tables before the call of p are the
\* initial ones.
Quiet(p) == \A q \in Procs \ {p} : pc[q] = "idle"
AllocErrors == {"InsufficientStock", "SaleBelowCost"}
Rejections == {"EmptyCart", "PriceBelowFloor"} \cup AllocErrors

RECURSIVE SumQty(_)
SumQty(S) ==
  IF S = {} THEN 0
  ELSE LET x == CHOOSE y \in S : TRUE IN x.qty + SumQty(S \ {x})

RECURSIVE SumLineTotal(_)
SumLineTotal(S) ==
  IF S = {} THEN 0
  ELSE LET x == CHOOSE y \in S : TRUE IN x.line_total + SumLineTotal(S \ {x})

ItemsOfSale(id) == { it \in saleitems : it.sale = id }
ItemsOfLot(l) == { it \in saleitems : it.product_stock = l }

\* C1: when the allocation of line k >= 2 of a cart is rejected with
\* InsufficientStock or SaleBelowCost, every lot has, after the call, the
\* quantity it had before the call.
C1_AllocRejectRestoresLots ==
  \A p \in Procs :
    ( /\ Done(p) /\ Quiet(p)
      /\ outcome[p].kind \in AllocErrors
      /\ outcome[p].line >= 2 )
    => lots = lots0

\* C2: two concurrent sales lose no update: once both are recorded, the
\* quantity of every lot plus the quantities sold from it by committed
\* SaleItems is the initial quantity of the lot.
C2_NoLostUpdate ==
  ( /\ load = "pair"
    /\ \A p \in Procs : Done(p) /\ outcome[p].kind = "Recorded" )
  => \A l \in LotIds : lots[l] + SumQty(ItemsOfLot(l)) = lots0[l]

\* C3: a persistence failure after the first lot decrement leaves the Sale,
\* SaleItem and lot tables as they were before the call.
C3_PersistenceFailureRollsBack ==
  \A p \in Procs :
    ( Done(p) /\ outcome[p].kind = "Aborted" /\ outcome[p].dirty )
    => /\ \A s \in sales : s.id # Val(sale[p])
       /\ ItemsOfSale(Val(sale[p])) = {}
       /\ Quiet(p) => ( lots = lots0 /\ sales = {} /\ saleitems = {} )

C3_Witness ==
  \E p \in Procs :
    /\ Done(p) /\ Quiet(p)
    /\ outcome[p].kind = "Aborted" /\ outcome[p].dirty
    /\ outcome[p].line = 2

\* C4: after a rejected call no Sale row and no SaleItem row created by the
\* call remains.
C4_RejectionLeavesNoSale ==
  \A p \in Procs :
    ( Done(p) /\ outcome[p].kind \in Rejections )
    => /\ sale[p] # None =>
            /\ \A s \in sales : s.id # Val(sale[p])
            /\ ItemsOfSale(Val(sale[p])) = {}
       /\ Quiet(p) => ( sales = {} /\ saleitems = {} )

C4_Witness ==
  \E p \in Procs :
    /\ Done(p)
    /\ outcome[p].kind \in AllocErrors
    /\ outcome[p].line = 2
    /\ sale[p] # None

\* C5: no lot quantity is ever negative, committed or written in an open
\* transaction.
C5_NonNegativeStock ==
  /\ \A l \in LotIds : lots[l] >= 0
  /\ \A p \in Procs : \A l \in DOMAIN writes[p] : writes[p][l] >= 0

C5_Witness ==
  /\ load = "pair"
  /\ \A p \in Procs : Done(p) /\ outcome[p].kind = "Recorded"
  /\ \E l \in LotIds : lots[l] = 0 /\ Cardinality(ItemsOfLot(l)) = 2

\* C6: every committed SaleItem has unit_price >= product.min_price, and a
\* cart with an item below its floor, at any position, is rejected with
\* PriceBelowFloor.
C6_FloorInvariant ==
  /\ \A it \in saleitems : it.unit_price >= ProductTable[it.product].min_price
  /\ \A p \in Procs :
       ( pc[p] # "idle" /\ \E i \in DOMAIN items[p] : BelowFloor(items[p][i]) )
       => ( Done(p) /\ outcome[p].kind = "PriceBelowFloor" )

C6_Witness ==
  \E p \in Procs :
    /\ Done(p)
    /\ outcome[p].kind = "PriceBelowFloor"
    /\ outcome[p].line = 2

\* C7: every committed SaleItem has unit_price >= the unit_cost of its lot,
\* and a line priced below the cost of the chosen lot is never allocated.
C7_CostInvariant ==
  /\ \A it \in saleitems : it.unit_price >= LotTable[it.product_stock].unit_cost
  /\ \A p \in Procs : \A it \in stagedItems[p] :
       it.unit_price >= LotTable[it.product_stock].unit_cost
  /\ \A p \in Procs :
       pc[p] \in {"save", "create_item"}
       => ~BelowCost(items[p][idx[p]], Val(chosen[p]).id)

C7_Witness ==
  \E p \in Procs :
    /\ Done(p)
    /\ outcome[p].kind = "SaleBelowCost"
    /\ \E q \in Procs : q # p /\ outcome[q].kind = "Recorded"

\* C8: Sale.total is the sum of line_total over the SaleItems of the sale and
\* every SaleItem has line_total = unit_price * qty.
C8_TotalsExact ==
  /\ \A s \in sales : s.total = SumLineTotal(ItemsOfSale(s.id))
  /\ \A it \in saleitems : it.line_total = it.unit_price * it.qty

\* C9: the lot chosen for a line is, among the lots of the product at the
\* branch with quantity >= qty, one with the earliest expiry date.
C9_EarliestExpiryChosen ==
  [][ \A p \in Procs :
        ( pc[p] = "select" /\ pc'[p] = "save" )
        => LET it == items[p][idx[p]]
               C == Candidates(p, it.product, branch[p], it.qty)
               l == Val(chosen'[p]).id
           IN  /\ l \in C
               /\ \A m \in C :
                    LotTable[m].expiry_date # None
                    => /\ LotTable[l].expiry_date # None
                       /\ Val(LotTable[l].expiry_date) <= Val(LotTable[m].expiry_date)
    ]_vars

\* C10: when no single lot of the product at the branch holds the requested
\* quantity, the line is rejected with InsufficientStock and changes no lot.
C10_NoSplitAcrossLots ==
  [][ \A p \in Procs :
        ( /\ pc[p] = "select" /\ pc'[p] # "select"
          /\ \A l \in LotIds :
               ( LotTable[l].product = items[p][idx[p]].product
                 /\ LotTable[l].branch = branch[p] )
               => View(p, l) < items[p][idx[p]].qty )
        => /\ pc'[p] = "commit"
           /\ outcome'[p].kind = "InsufficientStock"
           /\ outcome'[p].line = idx[p]
           /\ writes'[p] = writes[p]
           /\ lots' = lots
    ]_vars

C10_Witness ==
  \E p \in Procs :
    /\ Done(p) /\ Quiet(p)
    /\ outcome[p].kind = "InsufficientStock"
    /\ outcome[p].line = 1
    /\ lots = lots0
    /\ LET it == items[p][1]
           same == { l \in LotIds : /\ LotTable[l].product = it.product
                                    /\ LotTable[l].branch = branch[p] }
       IN  /\ \A l \in same : lots0[l] < it.qty
           /\ \E l \in same : \E m \in same \ {l} : lots0[l] + lots0[m] >= it.qty

\* C11: a call rejected with EmptyCart or PriceBelowFloor leaves the Sale,
\* SaleItem, lot and Customer tables unchanged, and no request reaches the
\* transaction with an empty cart or with an item below its floor.
C11_ValidationPrecedesMutation ==
  \A p \in Procs :
    /\ ( Done(p) /\ Quiet(p) /\ outcome[p].kind \in {"EmptyCart", "PriceBelowFloor"} )
       => ( /\ lots = lots0 /\ sales = {} /\ saleitems = {}
            /\ customers = InitCustomers /\ saleSeq = 0 )
    /\ ( sale[p] # None \/ writes[p] # NoWrites \/ customer[p] # None
         \/ pc[p] \notin {"idle", "done"} )
       => ( /\ items[p] # <<>>
            /\ \A i \in DOMAIN items[p] :
                 items[p][i].unit_price >= ProductTable[items[p][i].product].min_price )

C11_Witness ==
  \E p \in Procs :
    /\ Done(p) /\ Quiet(p)
    /\ outcome[p].kind = "PriceBelowFloor"
    /\ outcome[p].line = Len(items[p])
    /\ Len(items[p]) >= 2
    /\ contact[p].phone = "ph3"
    /\ customers = InitCustomers
    /\ lots = lots0

\* C12: no committed SaleItem has qty <= 0 or a negative line_total, and no
\* sale raises the quantity of a lot.
C12_PositiveQuantity ==
  /\ \A it \in saleitems : it.qty > 0 /\ it.line_total >= 0
  /\ \A l \in LotIds : lots[l] <= lots0[l]

\* C13: a committed sale lowers every lot by the quantities of its SaleItems
\* that reference the lot, and changes no other lot.
C13_InventoryOnlyThroughLines ==
  [][ \A p \in Procs :
        ( pc[p] = "commit" /\ pc'[p] = "done" /\ outcome'[p].kind = "Recorded" )
        => \A l \in LotIds :
             lots'[l] = lots[l]
                        - SumQty({ it \in stagedItems[p] : it.product_stock = l })
    ]_vars

\* C14: every Sale row visible after the call has exactly one SaleItem per
\* cart line, with the product, the requested unit_price and the qty of the
\* line.
C14_SaleWithAllItems ==
  \A p \in Procs : \A s \in sales :
    ( sale[p] # None /\ s.id = Val(sale[p]) )
    => /\ Cardinality(ItemsOfSale(s.id)) = Len(items[p])
       /\ \A i \in DOMAIN items[p] :
            \E it \in ItemsOfSale(s.id) :
              /\ it.id = << s.id, i >>
              /\ it.product = items[p][i].product
              /\ it.unit_price = items[p][i].unit_price
              /\ it.qty = items[p][i].qty

\* C15: with a phone that one or more Customer rows have, the sale links to
\* one of them and no Customer row is added; with a phone that no row has,
\* exactly one Customer with that phone and the given name is added and the
\* sale links to it; without a phone the sale has no customer and no row is
\* added.
C15_CustomerResolution ==
  \A p \in Procs :
    ( /\ pc[p] # "idle" /\ Quiet(p)
      /\ outcome[p].kind \notin {"EmptyCart", "PriceBelowFloor", "FormInvalid"} )
    => LET ph == contact[p].phone
           old == { c \in InitCustomers : c.phone = ph }
       IN  IF ph = ""
             THEN customer[p] = None /\ customers = InitCustomers
           ELSE IF old # {}
             THEN /\ customers = InitCustomers
                  /\ customer[p] # None
                  /\ \E c \in old : c.id = Val(customer[p])
           ELSE /\ customer[p] # None
                /\ \E c \in customers :
                     /\ c.id = Val(customer[p])
                     /\ c.phone = ph /\ c.name = contact[p].name
                     /\ customers = InitCustomers \cup {c}
                     /\ c \notin InitCustomers

\* C16: a call rejected during allocation or aborted by a persistence
\* failure leaves no Customer row that it created.
C16_FailedSaleLeavesNoCustomer ==
  \A p \in Procs :
    ( Done(p) /\ Quiet(p) /\ outcome[p].kind \in AllocErrors \cup {"Aborted"} )
    => customers = InitCustomers

HasEmail(p) == customer[p] # None /\ EmailOf(Val(customer[p])) # ""
ReceiptsOf(p) ==
  IF sale[p] = None THEN {} ELSE { m \in mails : m.sale = Val(sale[p]) }

\* C17: a receipt is dispatched for a call exactly when its sale succeeded and
\* its customer has an email address, and the sale is committed whether the
\* notifier delivered the receipt or failed.
C17_ReceiptIffSaleSucceeded ==
  \A p \in Procs :
    Done(p) =>
      /\ ( ReceiptsOf(p) # {} ) <=> ( outcome[p].kind = "Recorded" /\ HasEmail(p) )
      /\ \A m \in ReceiptsOf(p) :
           ~m.delivered => \E s \in sales : s.id = m.sale

\* C18: a receipt is dispatched only for a sale whose transaction has
\* committed.
C18_ReceiptAfterCommit ==
  \A m \in mails : \E s \in sales : s.id = m.sale

\* C19: every Product has min_price <= price.
C19_FloorNotAbovePrice ==
  /\ \A pr \in Products : ProductTable[pr].min_price <= ProductTable[pr].price
  /\ \A i \in DOMAIN catalog : catalog[i].min_price <= catalog[i].price

\* C20: when the earliest-expiring lots with sufficient quantity all cost
\* more than the requested price, the line is rejected with SaleBelowCost, no
\* other lot being tried.
C20_CostCheckOnEarliestLot ==
  [][ \A p \in Procs :
        LET it == items[p][idx[p]]
            C == Candidates(p, it.product, branch[p], it.qty)
            dated == { l \in C : LotTable[l].expiry_date # None }
            earliest == { l \in dated : \A m \in dated :
                            Val(LotTable[l].expiry_date) <= Val(LotTable[m].expiry_date) }
        IN  ( /\ pc[p] = "select" /\ pc'[p] # "select"
              /\ earliest # {}
              /\ \A l \in earliest : LotTable[l].unit_cost > it.unit_price )
            => ( /\ outcome'[p].kind = "SaleBelowCost"
                 /\ writes'[p] = writes[p] )
    ]_vars

\* C21: every SaleItem of a committed sale references a lot of the branch of
\* the sale and of the product of the item, and when the decrement of a line
\* is written the lot holds at least the qty of the line.
C21_LotOfBranchWithStock ==
  [][ /\ \A it \in saleitems' :
           \E s \in sales' :
             /\ s.id = it.sale
             /\ LotTable[it.product_stock].branch = s.branch
             /\ LotTable[it.product_stock].product = it.product
      /\ \A p \in Procs :
           ( pc[p] = "save" /\ pc'[p] = "create_item" )
           => LET l == Val(chosen[p]).id
                  it == items[p][idx[p]]
              IN  /\ LotTable[l].branch = branch[p]
                  /\ LotTable[l].product = it.product
                  /\ View(p, l) >= it.qty
    ]_vars

\* The cart of p has two lines of one product whose only lot at the branch
\* is l, the first line fits in the lot and passes the cost check, and the
\* two lines together do not fit; the allocation of p has started.
TwoLinesOverOneLot(p, l) ==
  /\ Quiet(p)
  /\ sale[p] # None
  /\ Len(items[p]) = 2
  /\ items[p][1].product = items[p][2].product
  /\ { k \in LotIds : /\ LotTable[k].product = items[p][1].product
                      /\ LotTable[k].branch = branch[p] } = {l}
  /\ items[p][1].qty <= lots0[l]
  /\ lots0[l] < items[p][1].qty + items[p][2].qty
  /\ ~BelowCost(items[p][1], l)

\* C22: the query of a line sees the decrements of the earlier lines of the
\* cart: a cart with two lines of qty q1 and q2 on a product whose only lot
\* holds Q, q1 <= Q < q1 + q2, is rejected with InsufficientStock on its
\* second line, and the lot never becomes negative.
C22_SecondLineSeesFirstDecrement ==
  \A p \in Procs : \A l \in LotIds :
    TwoLinesOverOneLot(p, l)
    => /\ View(p, l) >= 0
       /\ lots[l] >= 0
       /\ outcome[p].kind # "Recorded"
       /\ ( Done(p) /\ outcome[p].kind # "Aborted" )
          => outcome[p] = Result("InsufficientStock", 2, FALSE)

C22_Witness ==
  \E l \in LotIds :
    /\ TwoLinesOverOneLot("p1", l)
    /\ Done("p1")
    /\ outcome["p1"] = Result("InsufficientStock", 2, FALSE)
    /\ lots[l] = lots0[l] - items["p1"][1].qty

\* C23: a restock that interleaves with a sale is not lost: once the sale is
\* recorded, every lot holds its initial quantity, plus the units of the
\* restocks made on it, minus the quantities sold from it.
C23_RestockNotLost ==
  ( Done("p1") /\ outcome["p1"].kind = "Recorded" )
  => \A l \in LotIds :
       lots[l] = lots0[l] + RestockAmount * restocks[l] - SumQty(ItemsOfLot(l))

====
